---- MODULE Spec2Model ----
(***************************************************************************)
(* HTTP router over a trie of path segments (src/P2/program_7.py).         *)
(*                                                                         *)
(* A path string is a sequence of characters; a segment is the sequence    *)
(* of characters between two "/".  A trie node is named by the sequence    *)
(* of segments that leads to it from the root (the root is <<>>), so the   *)
(* children mapping of a node k is the set of nodes Append(k, w).          *)
(***************************************************************************)
EXTENDS Integers, Sequences, FiniteSets, TLC

\* ---------------------------------------------------------------- bounds
MaxSegs == 3
MaxAdds == 2

\* ---------------------------------------------------------------- values
Slash == "/"
Segments == {<<>>, <<"a">>}
UnknownSegments == {<<"b">>}

None == "None"
IndexError == "IndexError"
RootHandler == "root handler"
NotFoundHandler == "not found handler"
Handlers == {"", "about handler", "home handler"}

\* Python truthiness of a handler value: None and the empty string are falsy.
Falsy(h) == h = None \/ h = ""

RECURSIVE Join(_)
\* "/".join(segs) for a non-empty list of segments.
Join(segs) ==
    IF Len(segs) = 1 THEN segs[1]
    ELSE segs[1] \o <<Slash>> \o Join(Tail(segs))

\* Every path of up to MaxSegs segments of segs separated by "/" ("" and "/"
\* included: one empty segment, two empty segments).
PathsOver(segs) == {Join(p) : p \in UNION {[1..n -> segs] : n \in 1..MaxSegs}}

\* The path strings callers register.
PathStrings == PathsOver(Segments)

\* The path strings callers look up: also segments that no route has.
LookupStrings == PathsOver(Segments \cup UnknownSegments)

\* ---------------------------------------------------------------- split_path
RECURSIVE SplitAt(_, _, _)
\* str.split("/") scanning s from index i with the segment cur collected so far.
SplitAt(s, i, cur) ==
    IF i > Len(s) THEN <<cur>>
    ELSE IF s[i] = Slash THEN <<cur>> \o SplitAt(s, i + 1, <<>>)
    ELSE SplitAt(s, i + 1, Append(cur, s[i]))

split_path(path) == SplitAt(path, 1, <<>>)

\* ---------------------------------------------------------------- RouteTrieNode
RouteTrieNode(handler, default_handler) ==
    [handler |-> handler, default_handler |-> default_handler]

\* RouteTrieNode.insert that leaves the new node without the default handler.
NodeInsertNoDefault(nodes, key, path_word, handler) ==
    IF Append(key, path_word) \notin DOMAIN nodes
    THEN nodes @@ (Append(key, path_word) :> RouteTrieNode(handler, None))
    ELSE nodes

\* RouteTrieNode.insert on the node named key.
NodeInsert(nodes, key, path_word, handler) ==
    IF Append(key, path_word) \notin DOMAIN nodes
    THEN nodes @@ (Append(key, path_word) :> RouteTrieNode(handler, nodes[key].default_handler))
    ELSE nodes

\* ---------------------------------------------------------------- RouteTrie
RouteTrie(handler, default_handler) ==
    <<>> :> RouteTrieNode(handler, default_handler)

RECURSIVE InsertFromAll(_, _, _, _, _)
\* RouteTrie.insert that assigns the handler to every node it walks through.
InsertFromAll(nodes, path_list, i, key, handler) ==
    IF i > Len(path_list)
    THEN [nodes EXCEPT ![key].handler = handler]
    ELSE LET path_word == path_list[i]
             grown == IF Append(key, path_word) \notin DOMAIN nodes
                      THEN NodeInsert(nodes, key, path_word, nodes[key].default_handler)
                      ELSE nodes
             marked == IF key = <<>> THEN grown ELSE [grown EXCEPT ![key].handler = handler]
         IN  InsertFromAll(marked, path_list, i + 1, Append(key, path_word), handler)

RECURSIVE InsertFrom(_, _, _, _, _)
\* The loop of RouteTrie.insert at position i (1-based), standing on node key.
InsertFrom(nodes, path_list, i, key, handler) ==
    IF i > Len(path_list)
    THEN [nodes EXCEPT ![key].handler = handler]
    ELSE LET path_word == path_list[i]
             grown == IF Append(key, path_word) \notin DOMAIN nodes
                      THEN NodeInsert(nodes, key, path_word, nodes[key].default_handler)
                      ELSE nodes
         IN  InsertFrom(grown, path_list, i + 1, Append(key, path_word), handler)

\* RouteTrie.insert that assigns the handler only to a node it has just created.
insert_if_new(nodes, path_list, handler) ==
    IF path_list \in DOMAIN nodes
    THEN nodes
    ELSE InsertFrom(nodes, path_list, 1, <<>>, handler)

insert(nodes, path_list, handler) == InsertFrom(nodes, path_list, 1, <<>>, handler)

RECURSIVE FindFromLenient(_, _, _, _)
\* RouteTrie.find that skips every unmatched segment instead of returning None.
FindFromLenient(nodes, path_list, count, key) ==
    IF count >= Len(path_list)
    THEN [value |-> nodes[key].handler, nodes |-> nodes]
    ELSE LET each_word == path_list[count + 1]
         IN  IF Append(key, each_word) \in DOMAIN nodes
             THEN FindFromLenient(nodes, path_list, count + 1, Append(key, each_word))
             ELSE FindFromLenient(nodes, path_list, count + 1, key)

RECURSIVE FindFromCreating(_, _, _, _)
\* RouteTrie.find that creates the child it misses (a setdefault in place of the test).
FindFromCreating(nodes, path_list, count, key) ==
    IF count >= Len(path_list)
    THEN [value |-> nodes[key].handler, nodes |-> nodes]
    ELSE LET each_word == path_list[count + 1]
         IN  IF Append(key, each_word) \in DOMAIN nodes
             THEN FindFromCreating(nodes, path_list, count + 1, Append(key, each_word))
             ELSE IF each_word = <<>> /\ count = Len(path_list) - 1
             THEN FindFromCreating(nodes, path_list, count + 1, key)
             ELSE [value |-> None,
                   nodes |-> NodeInsert(nodes, key, each_word, nodes[key].default_handler)]

RECURSIVE FindFrom(_, _, _, _)
\* The loop of RouteTrie.find at enumerate index count (0-based), standing on node key.
FindFrom(nodes, path_list, count, key) ==
    IF count >= Len(path_list)
    THEN [value |-> nodes[key].handler, nodes |-> nodes]
    ELSE LET each_word == path_list[count + 1]
         IN  IF Append(key, each_word) \in DOMAIN nodes
             THEN FindFrom(nodes, path_list, count + 1, Append(key, each_word))
             ELSE IF each_word = <<>> /\ count = Len(path_list) - 1
             THEN FindFrom(nodes, path_list, count + 1, key)
             ELSE [value |-> None, nodes |-> nodes]

\* RouteTrie.find that stops one segment early.
find_parent(nodes, path_list) ==
    FindFrom(nodes, SubSeq(path_list, 1, Len(path_list) - 1), 0, <<>>)

\* RouteTrie.find: the value returned and the trie it leaves behind.
find(nodes, path_list) == FindFrom(nodes, path_list, 0, <<>>)

\* ---------------------------------------------------------------- Router
Returned(v, nodes) == [raised |-> FALSE, value |-> v, nodes |-> nodes]
Raised(e, nodes) == [raised |-> TRUE, value |-> e, nodes |-> nodes]

\* Router.lookup without the conversion of "no match" to the not-found handler.
lookup_none(nodes, path) ==
    LET path_list == split_path(path)
    IN  IF path_list[1] = <<>> /\ Len(path_list) < 2
        THEN Raised(IndexError, nodes)
        ELSE IF path_list[1] = <<>> /\ path_list[2] = <<>>
        THEN Returned(nodes[<<>>].handler, nodes)
        ELSE LET found == find(nodes, path_list)
             IN  Returned(found.value, found.nodes)

\* Router.lookup: path_list[1] is read only when path_list[0] is '' (short-circuit
\* "and"), and raises IndexError when the list has a single element.
lookup(nodes, path) ==
    LET path_list == split_path(path)
    IN  IF path_list[1] = <<>> /\ Len(path_list) < 2
        THEN Raised(IndexError, nodes)
        ELSE IF path_list[1] = <<>> /\ path_list[2] = <<>>
        THEN Returned(nodes[<<>>].handler, nodes)
        ELSE LET found == find(nodes, path_list)
             IN  IF Falsy(found.value)
                 THEN Returned(found.nodes[<<>>].default_handler, found.nodes)
                 ELSE Returned(found.value, found.nodes)

\* Router.add_handler
add_handler(nodes, path, handler) == insert(nodes, split_path(path), handler)

\* ---------------------------------------------------------------- state
VARIABLES
    nodes,       \* the trie: node name -> [handler, default_handler]
    registered,  \* history: path string -> handler of the latest add_handler on it
    replaced,    \* history: path string -> handler the latest add_handler on it overwrote
    addCount,    \* history: number of add_handler calls so far
    lastOp       \* the call that produced this state and what it returned

vars == <<nodes, registered, replaced, addCount, lastOp>>

NoFun == [x \in {} |-> x]
NoResult == [raised |-> FALSE, value |-> None]

Init ==
    /\ nodes = RouteTrie(RootHandler, NotFoundHandler)
    /\ registered = NoFun
    /\ replaced = NoFun
    /\ addCount = 0
    /\ lastOp = [kind |-> "Router", path |-> <<>>, handler |-> None, result |-> NoResult]

AddHandler ==
    \E path \in PathStrings, handler \in Handlers :
        LET after == add_handler(nodes, path, handler)
        IN  /\ addCount < MaxAdds
            /\ addCount' = addCount + 1
            /\ nodes' = after
            /\ registered' = IF path \in DOMAIN registered
                             THEN [registered EXCEPT ![path] = handler]
                             ELSE registered @@ (path :> handler)
            /\ replaced' = IF path \in DOMAIN registered
                           THEN (path :> registered[path]) @@ replaced
                           ELSE replaced
            /\ lastOp' = [kind |-> "add_handler", path |-> path, handler |-> handler,
                          result |-> NoResult]

LookupIn(paths) ==
    \E path \in paths :
        LET r == lookup(nodes, path)
        IN  /\ nodes' = r.nodes
            /\ lastOp' = [kind |-> "lookup", path |-> path, handler |-> None,
                          result |-> [raised |-> r.raised, value |-> r.value]]
            /\ UNCHANGED <<registered, replaced, addCount>>

\* A caller that passes any path string.
Lookup == LookupIn(LookupStrings)

\* A caller that never passes the empty string.
LookupNonEmpty == LookupIn(LookupStrings \ {<<>>})

Next == AddHandler \/ Lookup

NextNonEmpty == AddHandler \/ LookupNonEmpty

Spec == Init /\ [][Next]_vars

SpecNonEmpty == Init /\ [][NextNonEmpty]_vars

\* ---------------------------------------------------------------- vocabulary of the claims
IsLookup == lastOp.kind = "lookup"
IsAdd == lastOp.kind = "add_handler"
Ret(v) == [raised |-> FALSE, value |-> v]

\* The path is "/" or starts with "//": lookup answers with the root handler.
RootSpecial(path) ==
    LET pl == split_path(path)
    IN  Len(pl) >= 2 /\ pl[1] = <<>> /\ pl[2] = <<>>

EndsInSlash(path) == Len(path) > 0 /\ path[Len(path)] = Slash

\* The same path with its trailing slash toggled.
Toggle(path) ==
    IF EndsInSlash(path) THEN SubSeq(path, 1, Len(path) - 1) ELSE Append(path, Slash)

IsStrictPrefix(a, b) == Len(a) < Len(b) /\ SubSeq(b, 1, Len(a)) = a

\* Some registered path runs strictly deeper than path in the trie.
HasDeeper(path) ==
    \E q \in DOMAIN registered : IsStrictPrefix(split_path(path), split_path(q))

\* /s1/.../sn with n >= 1, every si non-empty, and an optional trailing "/".
PlainForm(path) ==
    LET pl == split_path(path)
        n == IF pl[Len(pl)] = <<>> THEN Len(pl) - 1 ELSE Len(pl)
    IN  /\ Len(pl) >= 2
        /\ pl[1] = <<>>
        /\ n >= 2
        /\ \A i \in 2..n : pl[i] # <<>>

FirstSegments == {split_path(q)[1] : q \in DOMAIN registered}

\* ---------------------------------------------------------------- C1
\* C1 (as stated): a lookup of a non-empty registered path returns the handler of
\* the latest add_handler on that path.
C1_Original ==
    (IsLookup /\ lastOp.path # <<>> /\ lastOp.path \in DOMAIN registered)
        => lastOp.result = Ret(registered[lastOp.path])

\* C1 (amended): a lookup of a non-empty registered path that is not "/" and does
\* not start with "//", registered with a truthy handler, returns that handler.
C1_RegisteredLookup ==
    (/\ IsLookup
     /\ lastOp.path # <<>>
     /\ lastOp.path \in DOMAIN registered
     /\ ~RootSpecial(lastOp.path)
     /\ ~Falsy(registered[lastOp.path]))
        => lastOp.result = Ret(registered[lastOp.path])

C1_Witness ==
    /\ IsLookup
    /\ lastOp.path \in DOMAIN registered
    /\ Len(split_path(lastOp.path)) >= 3
    /\ ~RootSpecial(lastOp.path)
    /\ ~Falsy(registered[lastOp.path])
    /\ Cardinality(DOMAIN registered) >= 2
    /\ lastOp.result = Ret(registered[lastOp.path])

\* ---------------------------------------------------------------- C2
\* C2: for a registered path P not ending in "/" with no deeper registered path,
\* lookup(P + "/") returns the same value as lookup(P).
C2_TrailingSlash ==
    \A P \in DOMAIN registered :
        (/\ IsLookup
         /\ lastOp.path = Append(P, Slash)
         /\ ~EndsInSlash(P)
         /\ ~HasDeeper(P))
            => LET r == lookup(nodes, P)
               IN  /\ ~lastOp.result.raised
                   /\ ~r.raised
                   /\ lastOp.result.value = r.value

\* ---------------------------------------------------------------- C3
\* C3: lookup("/") and lookup("") both return the root handler of the constructor.
C3_RootLookup ==
    (IsLookup /\ lastOp.path \in {<<>>, <<Slash>>})
        => lastOp.result = Ret(RootHandler)

\* ---------------------------------------------------------------- C4
\* C4: lookup never raises, and a path with no structural match in the trie
\* yields the not-found handler.
C4_NeverRaises ==
    IsLookup =>
        /\ ~lastOp.result.raised
        /\ (~RootSpecial(lastOp.path) /\ find(nodes, split_path(lastOp.path)).value = None)
               => lastOp.result.value = NotFoundHandler

\* ---------------------------------------------------------------- C5
\* C5 (as stated): a lookup of a path whose first segment is the first segment of
\* no registered path returns the not-found handler.
C5_Original ==
    (IsLookup /\ split_path(lastOp.path)[1] \notin FirstSegments)
        => lastOp.result = Ret(NotFoundHandler)

\* C5 (amended): the same for a non-empty path that is not "/" and does not start
\* with "//".
C5_UnknownFirstSegment ==
    (/\ IsLookup
     /\ lastOp.path # <<>>
     /\ ~RootSpecial(lastOp.path)
     /\ split_path(lastOp.path)[1] \notin FirstSegments)
        => lastOp.result = Ret(NotFoundHandler)

C5_Witness ==
    /\ IsLookup
    /\ split_path(lastOp.path)[1] # <<>>
    /\ Len(split_path(lastOp.path)) >= 2
    /\ split_path(lastOp.path)[1] \notin FirstSegments
    /\ \E q \in DOMAIN registered :
           /\ split_path(q)[1] = <<>>
           /\ SubSeq(split_path(q), 2, Len(split_path(q))) = split_path(lastOp.path)
    /\ lastOp.result = Ret(NotFoundHandler)

\* ---------------------------------------------------------------- C6
\* C6 (as stated): once a path registered with H1 is registered again with a
\* different H2, a lookup of it returns H2 and not H1.
C6_Original ==
    (/\ IsLookup
     /\ lastOp.path \in DOMAIN replaced
     /\ replaced[lastOp.path] # registered[lastOp.path])
        => /\ lastOp.result = Ret(registered[lastOp.path])
           /\ lastOp.result.value # replaced[lastOp.path]

\* C6 (amended): the same for a non-empty path that is not "/" and does not start
\* with "//", and a truthy H2.
C6_Overwrite ==
    (/\ IsLookup
     /\ lastOp.path \in DOMAIN replaced
     /\ replaced[lastOp.path] # registered[lastOp.path]
     /\ lastOp.path # <<>>
     /\ ~RootSpecial(lastOp.path)
     /\ ~Falsy(registered[lastOp.path]))
        => /\ lastOp.result = Ret(registered[lastOp.path])
           /\ lastOp.result.value # replaced[lastOp.path]

C6_Witness ==
    /\ IsLookup
    /\ lastOp.path \in DOMAIN replaced
    /\ ~Falsy(replaced[lastOp.path])
    /\ ~Falsy(registered[lastOp.path])
    /\ replaced[lastOp.path] # registered[lastOp.path]
    /\ ~RootSpecial(lastOp.path)
    /\ lastOp.result = Ret(registered[lastOp.path])

\* ---------------------------------------------------------------- C7
\* C7: a lookup leaves every trie node unchanged, and a lookup that repeats the
\* previous lookup's path returns the previous result.
C7_LookupReadOnly ==
    [][lastOp'.kind = "lookup" =>
          /\ nodes' = nodes
          /\ (IsLookup /\ lastOp'.path = lastOp.path) => lastOp'.result = lastOp.result]_vars

C7_Witness ==
    /\ IsLookup
    /\ Cardinality(DOMAIN nodes) >= 3
    /\ find(nodes, split_path(lastOp.path)).value = None

\* ---------------------------------------------------------------- C8
\* C8: a lookup of /s1/.../sn (optional trailing "/") returns the not-found handler
\* when neither it nor its trailing-slash toggle was ever passed to add_handler.
C8_Unregistered ==
    (/\ IsLookup
     /\ PlainForm(lastOp.path)
     /\ lastOp.path \notin DOMAIN registered
     /\ Toggle(lastOp.path) \notin DOMAIN registered)
        => lastOp.result = Ret(NotFoundHandler)

\* The strict-prefix case: the path names an implicit node of the trie.
C8_Witness ==
    /\ IsLookup
    /\ PlainForm(lastOp.path)
    /\ lastOp.path \notin DOMAIN registered
    /\ Toggle(lastOp.path) \notin DOMAIN registered
    /\ split_path(lastOp.path) \in DOMAIN nodes
    /\ HasDeeper(lastOp.path)
    /\ lastOp.result = Ret(NotFoundHandler)

\* ---------------------------------------------------------------- C9
\* C9: the root node keeps the constructor's root handler and every node's
\* default_handler is the constructor's not-found handler.
C9_Configuration ==
    /\ nodes[<<>>].handler = RootHandler
    /\ \A k \in DOMAIN nodes : nodes[k].default_handler = NotFoundHandler

C9_Witness ==
    /\ IsAdd
    /\ <<>> \in DOMAIN registered
    /\ <<Slash>> \in DOMAIN registered
    /\ Cardinality(DOMAIN nodes) >= 3

\* ---------------------------------------------------------------- C10
\* C10: add_handler on an already-registered path creates and removes no node and
\* changes nothing but the handler of the path's terminal node.
C10_ReinsertFrame ==
    [][(/\ lastOp'.kind = "add_handler"
        /\ addCount' = addCount + 1
        /\ lastOp'.path \in DOMAIN registered)
          => LET terminal == split_path(lastOp'.path)
             IN  /\ DOMAIN nodes' = DOMAIN nodes
                 /\ \A k \in DOMAIN nodes : k # terminal => nodes'[k] = nodes[k]
                 /\ nodes'[terminal].default_handler = nodes[terminal].default_handler
                 /\ nodes'[terminal].handler = lastOp'.handler]_vars

C10_Witness ==
    /\ IsAdd
    /\ lastOp.path \in DOMAIN replaced
    /\ replaced[lastOp.path] # registered[lastOp.path]
    /\ Len(split_path(lastOp.path)) >= 3
    /\ nodes[split_path(lastOp.path)].handler = lastOp.handler

====
